---- MODULE Spec2Model ----
(***************************************************************************)
(* The cr50 I2C TPM transport of src/drivers/i2c/tpm/cr50.c as a state     *)
(* machine.  One step is one pass through a piece of straight-line code    *)
(* of the driver that ends at a bus transaction boundary: the chip (an     *)
(* external collaborator) answers every bus transaction                    *)
(* nondeterministically, with a value drawn from a small set or with a     *)
(* bus failure.  Time is the number of milliseconds mdelay() has spent     *)
(* since the live stopwatch was started.                                   *)
(*                                                                         *)
(* Variables                                                               *)
(*   dev   g_tpm_dev: bus and chip address                                 *)
(*   chip  struct tpm_chip: vendor.locality, the vendor bindings, is_open  *)
(*   pc    position of the single thread of control                        *)
(*   sw    milliseconds elapsed on the stopwatch in use                    *)
(*   l     arguments and locals of the running functions                   *)
(*   g     history of the running call (what went over the bus); it is     *)
(*         never read by an action's guard or by the driver's state        *)
(***************************************************************************)
EXTENDS Integers, Sequences, FiniteSets, TLC

VARIABLES dev, chip, pc, sw, l, g

vars == <<dev, chip, pc, sw, l, g>>

(***************************************************************************)
(* Bounds of the model.                                                    *)
(***************************************************************************)
\* CR50_TIMEOUT_LONG_MS is 2000 in the source; the model keeps the loop
\* structure and scales the bound so that a stopwatch loop runs a few times.
TimeoutLongMs == 6
\* "2 * 1000" iterations in request_locality, scaled the same way.
LocalityRetries == 2
\* Longest command handed to send.
MaxLen == 4
\* Highest locality number the release harness passes (TPM has 0..4).
MaxLoc == 3

(***************************************************************************)
(* Program constants.                                                      *)
(***************************************************************************)
CR50_MAX_BUFSIZE == 63
CR50_TIMEOUT_SHORT_MS == 2
\* CR50_DID_VID 0x00281ae0
CR50_DID_VID == 2628320

\* Register bits and header layout of tpm.h (TCG TIS values).
TPM_ACCESS_VALID == 128
TPM_ACCESS_ACTIVE_LOCALITY == 32
TPM_ACCESS_REQUEST_PENDING == 4
TPM_ACCESS_REQUEST_USE == 2
TPM_STS_VALID == 128
TPM_STS_COMMAND_READY == 64
TPM_STS_GO == 32
TPM_STS_DATA_AVAIL == 16
TPM_STS_DATA_EXPECT == 8
TPM_HEADER_SIZE == 10
TPM_RSP_SIZE_BYTE == 2

(***************************************************************************)
(* Pure helpers.                                                           *)
(***************************************************************************)
Min(a, b) == IF a <= b THEN a ELSE b

Max(a, b) == IF a >= b THEN a ELSE b

RECURSIVE BitAnd(_, _)
\* C's & on non-negative integers.
BitAnd(a, b) ==
  IF a = 0 \/ b = 0 THEN 0
  ELSE (a % 2) * (b % 2) + 2 * BitAnd(a \div 2, b \div 2)

\* (v & mask) == mask
HasBits(v, mask) == BitAnd(v, mask) = mask

ReadLe16AsBigEndian(lo, hi) == 256 * lo + hi

\* read_le16(&buf[1]) on the 4 status bytes
read_le16(lo, hi) == lo + 256 * hi

ReadBe32AsLittleEndian(b) == b[1] + 256 * b[2] + 65536 * b[3] + 16777216 * b[4]

\* read_be32 on 4 bytes
read_be32(b) == 16777216 * b[1] + 65536 * b[2] + 256 * b[3] + b[4]

\* (uint8_t *)&vendor filled with 4 bytes on the little-endian host
VendorOfBytes(b) == b[1] + 256 * b[2] + 65536 * b[3] + 16777216 * b[4]

(***************************************************************************)
(* What the chip may answer.                                               *)
(***************************************************************************)
\* ACCESS register bytes: nothing, valid only, request pending, owned,
\* owned with a request pending, active without valid.
AccessVals == {0, 128, 132, 160, 164, 32}

\* Status byte values: nothing, ready, valid, valid+expect, valid+avail,
\* valid+ready.
StsBytes == {0, 64, 128, 136, 144, 192}

\* Bytes 1..2 of the status register (burst count, little-endian).
BurstRaw == {<<0, 0>>, <<1, 0>>, <<2, 0>>, <<5, 0>>, <<10, 0>>, <<63, 0>>,
             <<64, 0>>, <<0, 1>>}

\* The 4 bytes of the status register: every status byte with burst 2,
\* every burst count with valid+expect and with valid+avail, one answer
\* with the unused byte 3 set, and one with only bit 0 of the status byte
\* and burst 32.
StsRaw == {<<s, 2, 0, 0>> : s \in StsBytes}
          \cup {<<s, b[1], b[2], 0>> : s \in {136, 144}, b \in BurstRaw}
          \cup {<<144, 3, 0, 255>>, <<1, 32, 0, 0>>}

\* The size field (bytes 2..5) of the response header the chip sends; the
\* top byte stays below 128 (TLC's integers have 32 bits).
ChipHdrs == {<<0, 0, 0, 0>>, <<0, 0, 0, 3>>, <<0, 0, 0, 10>>, <<0, 0, 0, 12>>,
             <<0, 0, 1, 0>>, <<12, 0, 0, 0>>}

\* What the caller's buffer holds at bytes 2..5 before receive is called.
StaleHdrs == {<<0, 0, 0, 0>>, <<0, 0, 0, 11>>}

\* Destination capacities handed to receive.
BufLens == {9, 10, 64}

\* DID_VID register bytes: the cr50 identity (0x00281ae0 as stored by the
\* little-endian chip), the same with its halves swapped, another device
\* id, zero.  The top byte stays below 128: TLC's integers have 32 bits.
DidVals == {<<224, 26, 40, 0>>, <<40, 0, 224, 26>>, <<224, 26, 41, 0>>,
            <<0, 0, 0, 0>>}

Buses == {0, 1}

\* Chip addresses a caller passes: unset, and 0x50.
Addrs == {0, 80}

(***************************************************************************)
(* Register transport and stopwatch.                                       *)
(***************************************************************************)
\* iic_tpm_read(): the outcomes of one register read.  rc is the return
\* value, ms the time spent in mdelay, bus whether anything went over the
\* bus, data the buffer afterwards.  A read that fails before the transfer
\* (no address, address write failed) leaves the buffer as it was (old); a
\* transfer that fails (i2c_read_raw reports an error) leaves it as it was
\* or with what the transfer stored before it failed.
iic_tpm_read(vals, old) ==
  IF dev.addr = 0
  THEN {[rc |-> -1, ms |-> 0, bus |-> FALSE, data |-> old]}
  ELSE {[rc |-> -1, ms |-> 0, bus |-> TRUE, data |-> old]}
       \cup {[rc |-> -1, ms |-> CR50_TIMEOUT_SHORT_MS, bus |-> TRUE, data |-> v] :
               v \in vals \cup {old}}
       \cup {[rc |-> 0, ms |-> CR50_TIMEOUT_SHORT_MS, bus |-> TRUE, data |-> v] :
               v \in vals}

\* iic_tpm_write(): the outcomes of one register write of len bytes.
iic_tpm_write(len) ==
  IF dev.addr = 0 \/ len > CR50_MAX_BUFSIZE
  THEN {[rc |-> -1, ms |-> 0, bus |-> FALSE]}
  ELSE {[rc |-> -1, ms |-> 0, bus |-> TRUE],
        [rc |-> 0, ms |-> CR50_TIMEOUT_SHORT_MS, bus |-> TRUE]}

\* mdelay(ms) seen from a stopwatch that has run t ms (capped at the bound).
Tick(t, ms) == Min(t + ms, TimeoutLongMs)

StopwatchExpiredStrict(t) == t > TimeoutLongMs

stopwatch_expired(t) == t >= TimeoutLongMs

LocalityOwnedExactByte(buf) ==
  buf = TPM_ACCESS_ACTIVE_LOCALITY + TPM_ACCESS_VALID

LocalityOwnedValidOnly(buf) == HasBits(buf, TPM_ACCESS_VALID)

\* The locality is owned iff the active-locality and valid bits are set.
LocalityOwned(buf) ==
  HasBits(buf, TPM_ACCESS_ACTIVE_LOCALITY + TPM_ACCESS_VALID)

ReleaseWritesAnyBit(force, buf) ==
  force # 0 \/ BitAnd(buf, TPM_ACCESS_REQUEST_PENDING + TPM_ACCESS_VALID) # 0

\* The condition under which release_locality writes.
ReleaseWrites(force, buf) ==
  force # 0 \/ HasBits(buf, TPM_ACCESS_REQUEST_PENDING + TPM_ACCESS_VALID)

\* cr50_tis_i2c_status(): the status byte, 0 when the read fails.
cr50_tis_i2c_status(o) == IF o.rc < 0 THEN 0 ELSE o.data[1]

CommandReadyTestsValid(status) == BitAnd(status, TPM_STS_VALID) # 0

\* status & TPM_STS_COMMAND_READY
CommandReady(status) == BitAnd(status, TPM_STS_COMMAND_READY) # 0

DataAvailableTestsExpect(status) == BitAnd(status, TPM_STS_DATA_EXPECT) # 0

DataExpectedTestsAvail(status) == BitAnd(status, TPM_STS_DATA_AVAIL) # 0

\* status & TPM_STS_DATA_EXPECT
DataExpected(status) == BitAnd(status, TPM_STS_DATA_EXPECT) # 0

\* status & TPM_STS_DATA_AVAIL
DataAvailable(status) == BitAnd(status, TPM_STS_DATA_AVAIL) # 0

VendorRecognizedLowHalf(vendor) == vendor % 65536 = CR50_DID_VID % 65536

\* vendor == CR50_DID_VID
VendorRecognized(vendor) == vendor = CR50_DID_VID

BurstStatusOkAllowsZero(status, mask, burst) ==
  HasBits(status, mask) /\ burst <= CR50_MAX_BUFSIZE

\* The exit condition of cr50_wait_burst_status.
BurstStatusOk(status, mask, burst) ==
  HasBits(status, mask) /\ burst > 0 /\ burst <= CR50_MAX_BUFSIZE

(***************************************************************************)
(* What an observer of the bus reads off the chip's answers (used by the   *)
(* history g only, never by the driver).                                   *)
(***************************************************************************)
\* Bit number k (0..7) of byte v.
BitSet(v, k) == (v \div (2 ^ k)) % 2 = 1

ShowsReady(o) == o.rc = 0 /\ BitSet(o.data[1], 6)

ShowsExpect(st) == BitSet(st, 3)

ShowsAvail(st) == BitSet(st, 4)

\* The chip answered, and its answer has the active-locality (bit 5) and
\* the valid bit (bit 7).
ShowsOwned(o) == o.rc = 0 /\ BitSet(o.data, 5) /\ BitSet(o.data, 7)

ShowsPendingValid(buf) == BitSet(buf, 2) /\ BitSet(buf, 7)

\* The response length a size field declares (big-endian).
DeclaredLen(h) == h[4] + 256 * (h[3] + 256 * (h[2] + 256 * h[1]))

(***************************************************************************)
(* State.                                                                  *)
(***************************************************************************)
\* Arguments and locals, as left when no call runs.
L0 ==
  [len |-> 0, sent |-> 0, burstcnt |-> 0, status |-> 0, wrc |-> 0, ret |-> 0,
   buf_len |-> 0, current |-> 0, expected |-> 0, hdr |-> <<0, 0, 0, 0>>,
   vendor |-> 0, timeout |-> 0, loc |-> 0, force |-> 0, buf |-> 0,
   rrc |-> 0, caller |-> "none"]

\* History of the running call, as left when no call runs.  granted (the
\* last ACCESS read of the recorded locality showed it owned, and no
\* release was written and the record was not reset since) outlives calls.
\* wr: the call attempted a register write; valid_read: a read of the call
\* succeeded with bit 7 set; dev_in, chip_in: dev and chip when the call
\* began; decoded, raw: a status read of the call succeeded, and its 4
\* bytes; wait_elapsed: the stopwatch when a burst/status wait timed out;
\* miss: a poll of send after a FIFO write, inside the chunk loop, showed
\* DataExpect clear; miss_write: a FIFO write followed such a poll;
\* avail_miss: a poll of receive before a FIFO read showed DataAvail clear;
\* read_after_miss: a FIFO read followed such a poll; excess: the poll after
\* the last FIFO read showed DataAvail set; rd_fail: a FIFO read failed.
G0 ==
  [op |-> "none", bus_io |-> FALSE, granted |-> FALSE,
   cmd_len |-> 0, fifo_w |-> 0, chunks_ok |-> TRUE, write_failed |-> FALSE,
   chunks |-> 0, polled |-> FALSE, poll_expect |-> FALSE, poll_avail |-> FALSE,
   poll_burst |-> 0, last_ready |-> FALSE,
   go_count |-> 0, go_pre |-> TRUE,
   final_polled |-> FALSE, final_expect |-> FALSE,
   fail_site |-> "none", out_checked |-> FALSE, out_ready |-> FALSE,
   cancel |-> FALSE,
   fifo_r |-> 0, declared |-> -1, rejected |-> FALSE, io_after_reject |-> FALSE,
   first_burst |-> 0, reads_ok |-> TRUE, max_end |-> 0, hdr_fresh |-> 0,
   last_len |-> 0,
   req_done |-> FALSE, req_owned |-> FALSE, first_owned |-> FALSE,
   req_writes |-> 0, req_delays |-> 0,
   rel_called |-> FALSE, rel_read_ok |-> FALSE, rel_val |-> 0,
   rel_writes |-> 0, rel_reg |-> -1,
   did_ok |-> FALSE, did_raw |-> <<0, 0, 0, 0>>, in_addr |-> 0,
   timed_out |-> FALSE,
   wr |-> FALSE, valid_read |-> FALSE,
   decoded |-> FALSE, raw |-> <<0, 0, 0, 0>>, wait_elapsed |-> 0,
   miss |-> FALSE, miss_write |-> FALSE,
   avail_miss |-> FALSE, read_after_miss |-> FALSE, excess |-> FALSE,
   rd_fail |-> FALSE,
   dev_in |-> [bus |-> 0, addr |-> 0],
   chip_in |-> [locality |-> 0, bound |-> FALSE, irq |-> 0, is_open |-> 0]]

Init ==
  /\ dev = [bus |-> 0, addr |-> 0]
  /\ chip = [locality |-> 0, bound |-> FALSE, irq |-> 0, is_open |-> 0]
  /\ pc = "idle"
  /\ sw = 0
  /\ l = L0
  /\ g = G0

\* The polling positions of cr50_wait_burst_status, one per call site.
WaitPcs == {"send_wait", "send_wait_final", "recv_wait_first", "recv_wait",
            "recv_wait_final"}

\* Where each call site continues when cr50_wait_burst_status returns.
AfterWait(p) ==
  CASE p = "send_wait" -> "send_chunk"
    [] p = "send_wait_final" -> "send_finish"
    [] p = "recv_wait_first" -> "recv_first"
    [] p = "recv_wait" -> "recv_chunk"
    [] p = "recv_wait_final" -> "recv_finish"

\* The caller of the vendor interface (tis layer, not in src/): send and
\* recv run only on an open chip, init only on a closed one, probe before
\* init.
CallerMayTransfer == chip.is_open = 1 /\ chip.bound

CallerMayInit == chip.is_open = 0

(***************************************************************************)
(* cr50_wait_burst_status(): one pass of the loop.                         *)
(***************************************************************************)
cr50_wait_burst_status ==
  /\ pc \in WaitPcs
  /\ IF stopwatch_expired(sw)
     THEN /\ l' = [l EXCEPT !.wrc = -1]
          /\ pc' = AfterWait(pc)
          /\ sw' = 0
          /\ g' = [g EXCEPT !.timed_out = TRUE, !.wait_elapsed = sw]
     ELSE \E o \in iic_tpm_read(StsRaw, <<0, 0, 0, 0>>) :
            LET status == o.data[1]
                burst == read_le16(o.data[2], o.data[3])
                gb == [g EXCEPT !.bus_io = @ \/ o.bus,
                                !.io_after_reject = @ \/ (g.rejected /\ o.bus)]
            IN IF o.rc # 0
               THEN /\ sw' = Tick(sw, o.ms + CR50_TIMEOUT_SHORT_MS)
                    /\ UNCHANGED <<l, pc>>
                    /\ g' = gb
               ELSE IF BurstStatusOk(status, TPM_STS_VALID, burst)
               THEN /\ l' = [l EXCEPT !.status = status, !.burstcnt = burst,
                                      !.wrc = 0]
                    /\ pc' = AfterWait(pc)
                    /\ sw' = 0
                    /\ g' = [gb EXCEPT
                               !.polled = TRUE,
                               !.poll_burst = o.data[2] + 256 * o.data[3],
                               !.poll_expect = ShowsExpect(o.data[1]),
                               !.poll_avail = ShowsAvail(o.data[1]),
                               !.decoded = TRUE, !.raw = o.data]
               ELSE /\ l' = [l EXCEPT !.status = status, !.burstcnt = burst]
                    /\ sw' = Tick(sw, o.ms + CR50_TIMEOUT_SHORT_MS)
                    /\ UNCHANGED pc
                    /\ g' = [gb EXCEPT !.decoded = TRUE, !.raw = o.data]
  /\ UNCHANGED <<dev, chip>>

(***************************************************************************)
(* cr50_tis_i2c_send()                                                     *)
(***************************************************************************)
\* chip->vendor.send(chip, buf, len)
CallSend ==
  /\ pc = "idle"
  /\ CallerMayTransfer
  /\ \E n \in 0..MaxLen :
       /\ l' = [L0 EXCEPT !.len = n]
       /\ g' = [G0 EXCEPT !.op = "send", !.cmd_len = n, !.granted = g.granted]
  /\ pc' = "send_ready"
  /\ sw' = 0
  /\ UNCHANGED <<dev, chip>>

\* The abort path at the label out: read the status, cancel if the chip is
\* still command-ready, return -1.  The result is the pair <<l', g'>> for
\* each outcome of the two bus transactions.
SendOut(l0, g0) ==
  \E r \in {[status |-> cr50_tis_i2c_status(o), shown |-> ShowsReady(o),
              bus |-> o.bus] : o \in iic_tpm_read(StsRaw, <<0, 0, 0, 0>>)},
     wbus \in {w.bus : w \in iic_tpm_write(4)} :
    LET ready == CommandReady(r.status)
    IN /\ l' = [l0 EXCEPT !.ret = -1]
       /\ g' = [g0 EXCEPT !.fail_site = "out",
                          !.out_checked = TRUE,
                          !.out_ready = r.shown,
                          !.cancel = ready,
                          !.wr = @ \/ ready,
                          !.bus_io = @ \/ r.bus \/ (ready /\ wbus)]
       /\ pc' = "send_ret"
       /\ sw' = 0

\* One pass of the command-ready loop (lines 314-322): status read, then
\* leave the loop, time out, or write ready and wait.
SendReady ==
  /\ pc = "send_ready"
  /\ \E o \in {[status |-> cr50_tis_i2c_status(x), shown |-> ShowsReady(x),
                  bus |-> x.bus, ms |-> x.ms] :
                   x \in iic_tpm_read(StsRaw, <<0, 0, 0, 0>>)},
        w \in iic_tpm_write(4) :
       LET t == Tick(sw, o.ms)
           gb == [g EXCEPT !.bus_io = @ \/ o.bus, !.last_ready = o.shown]
       IN IF CommandReady(o.status)
          THEN /\ pc' = IF l.len > 0 THEN "send_wait" ELSE "send_wait_final"
               /\ sw' = 0
               /\ g' = gb
               /\ UNCHANGED l
          ELSE IF stopwatch_expired(t)
          THEN /\ pc' = "send_ret"
               /\ sw' = 0
               /\ l' = [l EXCEPT !.ret = -1]
               /\ g' = [gb EXCEPT !.fail_site = "ready_timeout",
                                  !.timed_out = TRUE]
          ELSE /\ pc' = "send_ready"
               /\ sw' = Tick(t, w.ms + CR50_TIMEOUT_SHORT_MS)
               /\ g' = [gb EXCEPT !.bus_io = @ \/ w.bus, !.wr = TRUE]
               /\ UNCHANGED l
  /\ UNCHANGED <<dev, chip>>

SendLimitNoAddressByte(burstcnt, len) == Min(burstcnt, len)

\* The chunk size of line 336.
SendLimit(burstcnt, len) == Min(burstcnt - 1, len)

\* After the poll inside the chunk loop (lines 326-345): the checks of the
\* poll, then one FIFO write.
SendChunk ==
  /\ pc = "send_chunk"
  /\ IF l.wrc < 0
     THEN SendOut(l, g)
     ELSE IF l.sent > 0 /\ ~DataExpected(l.status)
     THEN SendOut(l, [g EXCEPT !.miss = @ \/ (g.chunks >= 1 /\ ~g.poll_expect)])
     ELSE LET limit == SendLimit(l.burstcnt, l.len) IN
          \E w \in iic_tpm_write(limit) :
            LET gw == [g EXCEPT
                         !.bus_io = @ \/ w.bus,
                         !.wr = TRUE,
                         !.miss = @ \/ (g.chunks >= 1 /\ ~g.poll_expect),
                         !.miss_write = @ \/ (g.chunks >= 1 /\ ~g.poll_expect),
                         !.polled = FALSE, !.poll_burst = 0,
                         !.poll_expect = FALSE, !.poll_avail = FALSE,
                         !.write_failed = @ \/ (w.rc # 0),
                         !.chunks_ok =
                            @ /\ l.sent = g.fifo_w
                              /\ limit = Min(g.poll_burst - 1,
                                             g.cmd_len - g.fifo_w),
                         !.fifo_w = IF w.rc = 0 THEN @ + limit ELSE @,
                         !.chunks = IF w.rc = 0 THEN Min(@ + 1, 2) ELSE @]
            IN IF w.rc # 0
               THEN SendOut(l, gw)
               ELSE /\ l' = [l EXCEPT !.sent = @ + limit, !.len = @ - limit]
                    /\ g' = gw
                    /\ pc' = IF l.len - limit > 0 THEN "send_wait"
                                                  ELSE "send_wait_final"
                    /\ sw' = 0
  /\ UNCHANGED <<dev, chip>>

\* After the final poll (lines 348-361): the DataExpect check and the go
\* write.
SendFinish ==
  /\ pc = "send_finish"
  /\ IF l.wrc < 0
     THEN SendOut(l, g)
     ELSE LET gf == [g EXCEPT !.final_polled = TRUE,
                              !.final_expect = g.poll_expect]
          IN IF DataExpected(l.status)
             THEN SendOut(l, gf)
             ELSE \E w \in iic_tpm_write(4) :
                    LET gg == [gf EXCEPT
                                 !.bus_io = @ \/ w.bus,
                                 !.wr = TRUE,
                                 !.go_count = @ + 1,
                                 !.go_pre =
                                    /\ g.fifo_w = g.cmd_len
                                    /\ g.polled
                                    /\ ~g.poll_expect]
                    IN IF w.rc < 0
                       THEN SendOut(l, gg)
                       ELSE /\ l' = [l EXCEPT !.ret = l.sent]
                            /\ g' = gg
                            /\ pc' = "send_ret"
                            /\ sw' = 0
  /\ UNCHANGED <<dev, chip>>

\* The positions at which a call of the vendor interface has returned.
RetPcs == {"send_ret", "recv_ret", "init_ret", "probe_ret"}

\* The caller takes the result; the locals of the call are gone.
Return ==
  /\ pc \in RetPcs
  /\ pc' = "idle"
  /\ l' = L0
  /\ g' = [G0 EXCEPT !.granted = g.granted]
  /\ sw' = 0
  /\ UNCHANGED <<dev, chip>>

(***************************************************************************)
(* cr50_tis_i2c_recv()                                                     *)
(***************************************************************************)
\* goto out with ret = -1
RecvFail(why, g0) ==
  /\ l' = [l EXCEPT !.ret = -1]
  /\ g' = [g0 EXCEPT !.fail_site = why]
  /\ pc' = "recv_ret"
  /\ sw' = 0

\* chip->vendor.recv(chip, buf, buf_len), up to the first poll (line 245).
CallRecv ==
  /\ pc = "idle"
  /\ CallerMayTransfer
  /\ \E cap \in BufLens, stale \in StaleHdrs :
       LET g0 == [G0 EXCEPT !.op = "recv", !.granted = g.granted] IN
       IF cap < TPM_HEADER_SIZE
       THEN /\ l' = [L0 EXCEPT !.buf_len = cap, !.hdr = stale, !.ret = -1]
            /\ g' = [g0 EXCEPT !.fail_site = "too_small"]
            /\ pc' = "recv_ret"
       ELSE /\ l' = [L0 EXCEPT !.buf_len = cap, !.hdr = stale]
            /\ g' = g0
            /\ pc' = "recv_wait_first"
  /\ sw' = 0
  /\ UNCHANGED <<dev, chip>>

\* The size field after the first chunk: the bytes at offsets 2..5 that lie
\* inside the chunk come from the chip, the others are what the buffer held.
HdrAfterRead(old, data, n) ==
  [i \in 1..4 |-> IF TPM_RSP_SIZE_BYTE + i - 1 < n THEN data[i] ELSE old[i]]

\* The loop condition of line 271 decides where receive polls next.
RecvNextPc(current, expected) ==
  IF current < expected THEN "recv_wait" ELSE "recv_wait_final"

\* After the first poll (lines 248-270): read the first chunk of burstcnt
\* bytes and decode the expected length.  The read stores burstcnt bytes
\* from buf[0] on, whatever buf_len is (max_end records how far the stores
\* went); the locals of receive are not part of buf.
RecvFirst ==
  /\ pc = "recv_first"
  /\ IF l.wrc < 0
     THEN RecvFail("timeout", g)
     ELSE IF ~DataAvailable(l.status)
     THEN RecvFail("no_data", [g EXCEPT !.avail_miss = ~g.poll_avail])
     ELSE \E o \in iic_tpm_read(ChipHdrs, l.hdr) :
            LET hdr == HdrAfterRead(l.hdr, o.data, l.burstcnt)
                expected == read_be32(hdr)
                gr == [g EXCEPT
                         !.bus_io = @ \/ o.bus,
                         !.avail_miss = @ \/ ~g.poll_avail,
                         !.read_after_miss = @ \/ ~g.poll_avail,
                         !.rd_fail = o.rc # 0,
                         !.polled = FALSE, !.poll_burst = 0,
                         !.poll_expect = FALSE, !.poll_avail = FALSE,
                         !.fifo_r = IF o.rc = 0 THEN g.poll_burst ELSE 0,
                         !.first_burst = g.poll_burst,
                         !.max_end = IF o.rc = 0 THEN l.burstcnt ELSE 0,
                         !.hdr_fresh =
                            IF o.rc = 0
                            THEN Min(4, Max(0, l.burstcnt - TPM_RSP_SIZE_BYTE))
                            ELSE 0]
            IN IF o.rc # 0
               THEN RecvFail("read", gr)
               ELSE IF expected > l.buf_len
               THEN /\ l' = [l EXCEPT !.hdr = hdr, !.expected = expected,
                                      !.ret = -1]
                    /\ g' = [gr EXCEPT !.declared = DeclaredLen(hdr),
                                       !.rejected = TRUE,
                                       !.fail_site = "too_large"]
                    /\ pc' = "recv_ret"
                    /\ sw' = 0
               ELSE /\ l' = [l EXCEPT !.hdr = hdr, !.expected = expected,
                                      !.current = l.burstcnt]
                    /\ g' = [gr EXCEPT !.declared = DeclaredLen(hdr)]
                    /\ pc' = RecvNextPc(l.burstcnt, expected)
                    /\ sw' = 0
  /\ UNCHANGED <<dev, chip>>

RecvLenWholeBurst(burstcnt, expected, current) == burstcnt

\* The chunk size of line 281.
RecvLen(burstcnt, expected, current) == Min(burstcnt, expected - current)

\* After a poll inside the loop (lines 273-288): read the next chunk.
RecvChunk ==
  /\ pc = "recv_chunk"
  /\ IF l.wrc < 0
     THEN RecvFail("timeout", g)
     ELSE IF ~DataAvailable(l.status)
     THEN RecvFail("no_data", [g EXCEPT !.avail_miss = ~g.poll_avail])
     ELSE LET len == RecvLen(l.burstcnt, l.expected, l.current) IN
          \E o \in iic_tpm_read({0}, 0) :
            LET gr == [g EXCEPT
                         !.bus_io = @ \/ o.bus,
                         !.avail_miss = @ \/ ~g.poll_avail,
                         !.read_after_miss = @ \/ ~g.poll_avail,
                         !.rd_fail = o.rc # 0,
                         !.polled = FALSE, !.poll_burst = 0,
                         !.poll_expect = FALSE, !.poll_avail = FALSE,
                         !.last_len = len,
                         !.reads_ok =
                            @ /\ l.current = g.fifo_r
                              /\ len = Min(g.poll_burst, g.declared - g.fifo_r),
                         !.fifo_r = IF o.rc = 0 THEN @ + len ELSE @,
                         !.max_end = IF o.rc = 0 THEN Max(@, l.current + len)
                                                 ELSE @]
            IN IF o.rc # 0
               THEN RecvFail("read", gr)
               ELSE /\ l' = [l EXCEPT !.current = @ + len]
                    /\ g' = gr
                    /\ pc' = RecvNextPc(l.current + len, l.expected)
                    /\ sw' = 0
  /\ UNCHANGED <<dev, chip>>

\* After the final poll (lines 291-301).
RecvFinish ==
  /\ pc = "recv_finish"
  /\ IF l.wrc < 0
     THEN RecvFail("timeout", g)
     ELSE IF DataAvailable(l.status)
     THEN RecvFail("excess", [g EXCEPT !.excess = g.poll_avail])
     ELSE /\ l' = [l EXCEPT !.ret = l.current]
          /\ g' = [g EXCEPT !.excess = g.poll_avail]
          /\ pc' = "recv_ret"
          /\ sw' = 0
  /\ UNCHANGED <<dev, chip>>

(***************************************************************************)
(* Locality manager.                                                       *)
(***************************************************************************)
\* check_locality(): the return value for one outcome of the ACCESS read.
check_locality(o, loc) ==
  IF o.rc < 0 THEN -1
  ELSE IF LocalityOwned(o.data) THEN loc
  ELSE -1

\* request_locality() up to the loop (lines 165-174).
RequestFirst ==
  /\ pc = "req_first"
  /\ \E o \in iic_tpm_read(AccessVals, 0), w \in iic_tpm_write(1) :
       IF check_locality(o, l.loc) >= 0
       THEN /\ chip' = [chip EXCEPT !.locality = l.loc]
            /\ l' = [l EXCEPT !.rrc = l.loc]
            /\ g' = [g EXCEPT !.bus_io = @ \/ o.bus,
                              !.granted = ShowsOwned(o),
                              !.req_owned = ShowsOwned(o),
                              !.first_owned = ShowsOwned(o),
                              !.req_done = TRUE]
            /\ pc' = "init_did"
       ELSE /\ l' = [l EXCEPT !.timeout = LocalityRetries]
            /\ g' = [g EXCEPT !.bus_io = @ \/ o.bus \/ w.bus,
                              !.first_owned = ShowsOwned(o),
                              !.wr = TRUE,
                              !.req_writes = @ + 1]
            /\ pc' = "req_poll"
            /\ UNCHANGED chip
  /\ UNCHANGED <<dev, sw>>

\* One pass of the loop of request_locality (lines 174-181).
RequestPoll ==
  /\ pc = "req_poll"
  /\ IF l.timeout = 0
     THEN /\ l' = [l EXCEPT !.rrc = -1]
          /\ g' = [g EXCEPT !.req_done = TRUE]
          /\ pc' = "init_did"
          /\ UNCHANGED chip
     ELSE \E o \in iic_tpm_read(AccessVals, 0) :
            IF check_locality(o, l.loc) >= 0
            THEN /\ chip' = [chip EXCEPT !.locality = l.loc]
                 /\ l' = [l EXCEPT !.rrc = l.loc]
                 /\ g' = [g EXCEPT !.bus_io = @ \/ o.bus,
                                   !.granted = ShowsOwned(o),
                                   !.req_owned = ShowsOwned(o),
                                   !.req_done = TRUE]
                 /\ pc' = "init_did"
            ELSE /\ l' = [l EXCEPT !.timeout = @ - 1]
                 /\ g' = [g EXCEPT !.bus_io = @ \/ o.bus,
                                   !.req_delays = @ + 1]
                 /\ pc' = "req_poll"
                 /\ UNCHANGED chip
  /\ UNCHANGED <<dev, sw>>

\* Where release_locality returns to.
AfterRelease(caller) ==
  CASE caller = "init" -> "init_ret"
    [] caller = "cleanup" -> "cleanup_ret"
    [] OTHER -> "release_ret"

\* release_locality(chip, loc, force)
release_locality ==
  /\ pc = "release"
  /\ \E o \in iic_tpm_read(AccessVals, 0), w \in iic_tpm_write(1) :
       LET gr == [g EXCEPT !.rel_called = TRUE,
                           !.rel_read_ok = o.rc = 0,
                           !.rel_val = o.data,
                           !.bus_io = @ \/ o.bus]
       IN IF o.rc >= 0 /\ ReleaseWrites(l.force, o.data)
          THEN g' = [gr EXCEPT !.rel_writes = @ + 1,
                               !.wr = TRUE,
                               !.rel_reg = l.loc,
                               !.bus_io = @ \/ w.bus,
                               !.granted = @ /\ l.loc # chip.locality]
          ELSE g' = gr
  /\ l' = [l EXCEPT !.ret = IF l.caller = "init" THEN -1 ELSE 0]
  /\ pc' = AfterRelease(l.caller)
  /\ UNCHANGED <<dev, chip, sw>>

(***************************************************************************)
(* Device lifecycle.                                                       *)
(***************************************************************************)
CallInitStoresAddressFirst ==
  /\ pc = "idle"
  /\ CallerMayInit
  /\ \E bus \in Buses, dev_addr \in Addrs :
       /\ dev' = [bus |-> bus, addr |-> dev_addr]
       /\ IF dev_addr = 0
          THEN /\ l' = [L0 EXCEPT !.ret = -1]
               /\ g' = [G0 EXCEPT !.op = "init", !.granted = g.granted,
                                  !.dev_in = dev, !.chip_in = chip]
               /\ pc' = "init_ret"
               /\ UNCHANGED chip
          ELSE /\ chip' = [chip EXCEPT !.locality = 0, !.bound = TRUE, !.irq = 0]
               /\ l' = [L0 EXCEPT !.loc = 0, !.caller = "init"]
               /\ g' = [G0 EXCEPT !.op = "init", !.in_addr = dev_addr,
                                  !.dev_in = dev, !.chip_in = chip]
               /\ pc' = "req_first"
  /\ UNCHANGED sw

\* tpm_vendor_init() up to request_locality (lines 421-434), with
\* cr50_vendor_init().
CallInit ==
  /\ pc = "idle"
  /\ CallerMayInit
  /\ \E bus \in Buses, dev_addr \in Addrs :
       IF dev_addr = 0
       THEN /\ l' = [L0 EXCEPT !.ret = -1]
            /\ g' = [G0 EXCEPT !.op = "init", !.granted = g.granted,
                               !.dev_in = dev, !.chip_in = chip]
            /\ pc' = "init_ret"
            /\ UNCHANGED <<dev, chip>>
       ELSE /\ dev' = [bus |-> bus, addr |-> dev_addr]
            /\ chip' = [chip EXCEPT !.locality = 0, !.bound = TRUE, !.irq = 0]
            /\ l' = [L0 EXCEPT !.loc = 0, !.caller = "init"]
            /\ g' = [G0 EXCEPT !.op = "init", !.in_addr = dev_addr,
                               !.dev_in = dev, !.chip_in = chip]
            /\ pc' = "req_first"
  /\ UNCHANGED sw

\* tpm_vendor_init() after request_locality (lines 434-455), up to the
\* call of release_locality at out_err.
InitDid ==
  /\ pc = "init_did"
  /\ IF l.rrc # 0
     THEN /\ l' = [l EXCEPT !.ret = -1]
          /\ pc' = "init_ret"
          /\ UNCHANGED <<chip, g>>
     ELSE \E o \in iic_tpm_read(DidVals, <<0, 0, 0, 0>>) :
            LET vendor == VendorOfBytes(o.data)
                gd == [g EXCEPT !.bus_io = @ \/ o.bus,
                                !.did_ok = o.rc = 0,
                                !.did_raw = o.data]
            IN IF o.rc < 0 \/ ~VendorRecognized(vendor)
               THEN /\ l' = [l EXCEPT !.vendor = IF o.rc < 0 THEN 0 ELSE vendor,
                                      !.loc = 0, !.force = 1]
                    /\ g' = gd
                    /\ pc' = "release"
                    /\ UNCHANGED chip
               ELSE /\ l' = [l EXCEPT !.vendor = vendor, !.ret = 0]
                    /\ g' = gd
                    /\ chip' = [chip EXCEPT !.is_open = 1]
                    /\ pc' = "init_ret"
  /\ UNCHANGED <<dev, sw>>

CallCleanupUnforced ==
  /\ pc = "idle"
  /\ l' = [L0 EXCEPT !.loc = chip.locality, !.force = 0, !.caller = "cleanup"]
  /\ g' = [G0 EXCEPT !.op = "cleanup", !.granted = g.granted]
  /\ pc' = "release"
  /\ UNCHANGED <<dev, chip, sw>>

\* tpm_vendor_cleanup()
CallCleanup ==
  /\ pc = "idle"
  /\ l' = [L0 EXCEPT !.loc = chip.locality, !.force = 1, !.caller = "cleanup"]
  /\ g' = [G0 EXCEPT !.op = "cleanup", !.granted = g.granted]
  /\ pc' = "release"
  /\ UNCHANGED <<dev, chip, sw>>

\* The caller closes the chip once cleanup has returned.
TisClose ==
  /\ pc = "cleanup_ret"
  /\ chip' = [chip EXCEPT !.is_open = 0]
  /\ pc' = "idle"
  /\ l' = L0
  /\ g' = [G0 EXCEPT !.granted = g.granted]
  /\ UNCHANGED <<dev, sw>>

\* tpm_vendor_probe() up to the loop (lines 384-394).
CallProbe ==
  /\ pc = "idle"
  /\ CallerMayInit
  /\ \E bus \in Buses, addr \in Addrs :
       dev' = [bus |-> bus, addr |-> addr]
  /\ l' = [L0 EXCEPT !.buf = 0]
  /\ g' = [G0 EXCEPT !.op = "probe", !.granted = g.granted,
                     !.dev_in = dev, !.chip_in = chip]
  /\ sw' = 0
  /\ pc' = "probe_loop"
  /\ UNCHANGED chip

\* The result of probe (lines 410-413).
ProbeResult(buf) == IF BitAnd(buf, TPM_STS_VALID) = 0 THEN -1 ELSE 0

\* One pass of the do-while loop of tpm_vendor_probe (lines 395-413).
ProbeLoop ==
  /\ pc = "probe_loop"
  /\ \E o \in iic_tpm_read(AccessVals, l.buf) :
       LET t == Tick(sw, o.ms + CR50_TIMEOUT_SHORT_MS)
           gp == [g EXCEPT !.bus_io = @ \/ o.bus,
                           !.valid_read = @ \/ (o.rc = 0 /\ BitSet(o.data, 7))]
       IN IF o.rc = 0 /\ BitAnd(o.data, TPM_STS_VALID) # 0
          THEN /\ l' = [l EXCEPT !.buf = o.data, !.ret = ProbeResult(o.data)]
               /\ g' = gp
               /\ pc' = "probe_ret"
               /\ sw' = 0
          ELSE IF stopwatch_expired(t)
          THEN /\ l' = [l EXCEPT !.buf = o.data, !.ret = ProbeResult(o.data)]
               /\ g' = [gp EXCEPT !.timed_out = TRUE]
               /\ pc' = "probe_ret"
               /\ sw' = 0
          ELSE /\ l' = [l EXCEPT !.buf = o.data]
               /\ g' = gp
               /\ pc' = "probe_loop"
               /\ sw' = t
  /\ UNCHANGED <<dev, chip>>

(***************************************************************************)
(* The driver under its caller.                                            *)
(***************************************************************************)
Next ==
  \/ CallProbe
  \/ ProbeLoop
  \/ CallInit
  \/ RequestFirst
  \/ RequestPoll
  \/ InitDid
  \/ release_locality
  \/ CallCleanup
  \/ TisClose
  \/ CallSend
  \/ SendReady
  \/ cr50_wait_burst_status
  \/ SendChunk
  \/ SendFinish
  \/ CallRecv
  \/ RecvFirst
  \/ RecvChunk
  \/ RecvFinish
  \/ Return

Spec == Init /\ [][Next]_vars

\* The thread of control never stops inside a call: mdelay and the bus
\* primitives return.
Running == Next /\ pc # "idle"

FairSpec == Spec /\ WF_vars(Running)

(***************************************************************************)
(* release_locality() driven directly, with either value of force          *)
(* (the driver itself only ever passes force = 1).                         *)
(***************************************************************************)
InitRelease ==
  /\ dev \in [bus : Buses, addr : Addrs \ {0}]
  /\ chip = [locality |-> 0, bound |-> FALSE, irq |-> 0, is_open |-> 0]
  /\ pc = "release"
  /\ sw = 0
  /\ l \in {[L0 EXCEPT !.loc = k, !.force = f, !.caller = "direct"] :
              k \in 0..MaxLoc, f \in {0, 1}}
  /\ g = [G0 EXCEPT !.op = "release"]

NextRelease == release_locality

SpecRelease == InitRelease /\ [][NextRelease]_vars

(***************************************************************************)
(* Properties.                                                             *)
(***************************************************************************)
SendReturned == pc = "send_ret" /\ g.op = "send"

RecvReturned == pc = "recv_ret" /\ g.op = "recv"

\* C1: a send that succeeds has written to the data FIFO consecutive
\* chunks, each of size min(b - 1, remaining) for the burst count b the
\* chip reported in the poll before it, in buffer order without gap or
\* overlap, whose sizes sum to the command length L, and it returns L.
SendChunksSumToLen ==
  (SendReturned /\ l.ret >= 0) =>
    /\ g.chunks_ok
    /\ ~g.write_failed
    /\ g.fifo_w = g.cmd_len
    /\ l.ret = g.cmd_len

\* A send of 4 bytes that succeeded in at least two chunks.
SendChunksWitness ==
  SendReturned /\ l.ret = 4 /\ g.cmd_len = 4 /\ g.chunks = 2

\* C2 as stated: receive never reads more bytes in total than the header
\* declares, and a declared length above the capacity ends the call without
\* further bus I/O.
RecvNeverReadsPastDeclared ==
  (g.op = "recv" /\ g.declared >= 0) =>
    /\ g.fifo_r <= g.declared
    /\ (g.declared > l.buf_len => RecvReturned /\ l.ret = -1)

\* C2 amended: the first chunk is the chip's whole burst count, read before
\* the length is known; no read after it goes past the declared length
\* (the total is at most the larger of the first burst and the declared
\* length), and a declared length above the capacity ends the call with an
\* error right after the first chunk, without further bus I/O.
RecvReadsAtMostFirstBurstOrDeclared ==
  (g.op = "recv" /\ g.declared >= 0) =>
    /\ g.fifo_r <= Max(g.first_burst, g.declared)
    /\ g.reads_ok
    /\ (g.declared > l.buf_len =>
          /\ RecvReturned
          /\ l.ret = -1
          /\ g.fifo_r = g.first_burst
          /\ ~g.io_after_reject)

\* A response declared larger than the capacity was rejected.
RecvRejectWitness ==
  RecvReturned /\ g.declared = 12 /\ l.buf_len = 10 /\ g.rejected
  /\ g.first_burst = 10

\* The positions inside the four polling loops: the request loop, the
\* burst/status wait, the command-ready wait of send, the valid-bit wait of
\* probe.
LoopPcs == WaitPcs \cup {"req_poll", "send_ready", "probe_loop"}

\* What a polling loop leaves behind: a failure result, unless the chip
\* satisfied the loop's condition.
LoopExitOk ==
  /\ (pc = "init_did" /\ g.req_done) => (l.rrc = -1 \/ g.req_owned)
  /\ (pc \in {AfterWait(p) : p \in WaitPcs}) => (l.wrc = -1 \/ g.polled)
  /\ (g.op = "send" /\ pc # "send_ready") =>
       (g.last_ready \/ (pc = "send_ret" /\ l.ret = -1))
  /\ pc = "probe_ret" => (l.ret = -1 \/ BitSet(l.buf, 7))
  /\ g.timed_out =>
       (l.wrc = -1 \/ (pc \in {"send_ret", "recv_ret", "probe_ret"} /\ l.ret = -1))

\* C3: each polling loop (the request loop, cr50_wait_burst_status, the
\* command-ready wait of send, the valid-bit wait of probe) is eventually
\* left, and when the chip did not satisfy its condition it is left with a
\* failure result.
PollingLoopsTerminate ==
  /\ (pc \in LoopPcs) ~> (pc \notin LoopPcs)
  /\ []LoopExitOk

\* A burst/status wait ended by its timeout.
PollingTimeoutWitness ==
  pc \in {"send_chunk", "send_finish", "recv_first", "recv_chunk", "recv_finish"}
  /\ l.wrc = -1 /\ g.timed_out /\ ~g.polled

\* C4: in send the go write is issued at most once, and only after all L
\* bytes were written to the FIFO and a later status poll returned with
\* DataExpect clear; when the final poll shows DataExpect set, send fails
\* and no go write is issued.
GoOnlyAfterAllBytes ==
  g.op = "send" =>
    /\ g.go_count <= 1
    /\ (g.go_count = 1 =>
          g.go_pre /\ g.final_polled /\ ~g.final_expect
          /\ g.fifo_w = g.cmd_len)
    /\ (g.final_polled /\ g.final_expect =>
          g.go_count = 0 /\ SendReturned /\ l.ret = -1)
    /\ (SendReturned /\ l.ret >= 0 => g.go_count = 1)

\* The final poll showed DataExpect after all 4 bytes were written.
GoWithheldWitness ==
  SendReturned /\ g.final_polled /\ g.final_expect /\ g.fifo_w = 4
  /\ g.cmd_len = 4

\* C5 as stated: init with a non-zero address; granted locality and the
\* expected identity give success, open chip, locality 0 owned; any other
\* identity gives failure, chip not open, and a forced active-locality
\* write to ACCESS of locality 0.
InitReleasesOnMismatch ==
  (pc = "init_ret" /\ g.in_addr # 0 /\ g.req_owned /\ g.did_ok) =>
    IF g.did_raw = <<224, 26, 40, 0>>
    THEN l.ret = 0 /\ chip.is_open = 1 /\ chip.locality = 0 /\ g.granted
    ELSE /\ l.ret = -1
         /\ chip.is_open = 0
         /\ g.rel_writes = 1
         /\ g.rel_reg = 0

\* C5 amended: as stated, except that on a mismatch the forced release is
\* attempted, and its active-locality write is issued whenever the ACCESS
\* read that release_locality starts with succeeds (when that read fails
\* nothing is written).
InitReleaseAttemptedOnMismatch ==
  (pc = "init_ret" /\ g.in_addr # 0 /\ g.req_owned /\ g.did_ok) =>
    IF g.did_raw = <<224, 26, 40, 0>>
    THEN l.ret = 0 /\ chip.is_open = 1 /\ chip.locality = 0 /\ g.granted
         /\ ~g.rel_called
    ELSE /\ l.ret = -1
         /\ chip.is_open = 0
         /\ g.rel_called
         /\ l.force = 1
         /\ IF g.rel_read_ok
            THEN g.rel_writes = 1 /\ g.rel_reg = 0 /\ ~g.granted
            ELSE g.rel_writes = 0

\* Init failed on another device's identity and released locality 0.
InitMismatchWitness ==
  pc = "init_ret" /\ g.req_owned /\ g.did_ok /\ g.did_raw = <<224, 26, 41, 0>>
  /\ l.ret = -1 /\ g.rel_writes = 1

\* C6 as stated: send never returns an error without the status check of
\* the failure path, and a status showing CommandReady there is followed by
\* a cancel.
SendErrorAlwaysChecksCancel ==
  (SendReturned /\ l.ret < 0) =>
    g.out_checked /\ (g.out_ready => g.cancel)

\* C6 amended: every failure of send after the command-ready phase reads
\* the status and issues the cancel exactly when that status shows
\* CommandReady; the command-ready timeout returns the error directly, its
\* last status read having shown CommandReady clear, with nothing written
\* to the FIFO and no cancel.
SendErrorCancelsAfterReadyPhase ==
  (SendReturned /\ l.ret < 0) =>
    IF g.fail_site = "out"
    THEN g.out_checked /\ (g.out_ready <=> g.cancel)
    ELSE /\ g.fail_site = "ready_timeout"
         /\ ~g.last_ready
         /\ ~g.out_checked
         /\ ~g.cancel
         /\ g.fifo_w = 0
         /\ g.go_count = 0

\* A failed send whose failure path found the chip command-ready and
\* cancelled.
SendCancelWitness ==
  SendReturned /\ l.ret < 0 /\ g.out_ready /\ g.cancel /\ g.fifo_w > 0

\* C7 as stated: a receive that succeeds returns the declared length, which
\* is the number of bytes read, and every read after the first chunk asks
\* for min(burstcnt, remaining) bytes at the current offset.
RecvReturnsDeclared ==
  (RecvReturned /\ l.ret >= 0) =>
    /\ l.ret = g.declared
    /\ l.ret = g.fifo_r
    /\ g.reads_ok

\* C7 amended: a receive that succeeds returns the number of bytes read,
\* which is the larger of the first burst count and the declared length
\* (the declared length whenever the first burst does not exceed it), and
\* every read after the first chunk asks for min(burstcnt, remaining) bytes
\* at the current offset.
RecvReturnsBytesRead ==
  (RecvReturned /\ l.ret >= 0) =>
    /\ l.ret = g.fifo_r
    /\ l.ret = Max(g.first_burst, g.declared)
    /\ g.reads_ok

\* First burst 10, declared length 12, a last read of 2 bytes, result 12.
RecvTwoChunksWitness ==
  RecvReturned /\ l.ret = 12 /\ g.first_burst = 10 /\ g.declared = 12
  /\ g.last_len = 2

\* C8: when the first ACCESS read of request_locality shows the locality
\* owned, the function writes nothing, does not enter its delay loop and
\* returns loc.
RequestIdempotent ==
  (g.req_done /\ g.first_owned) =>
    g.req_writes = 0 /\ g.req_delays = 0 /\ l.rrc = l.loc

\* request_locality returned at once: its first ACCESS read showed the
\* locality owned and nothing was written.
RequestIdempotentWitness ==
  pc = "init_did" /\ g.req_done /\ g.first_owned /\ g.req_writes = 0

\* C9 as stated: with force set the active-locality write is always
\* attempted; without force it is issued exactly when the value read has
\* the request-pending and valid bits.
ReleaseForceAlwaysWrites ==
  g.rel_called =>
    IF l.force # 0
    THEN g.rel_writes = 1
    ELSE (g.rel_writes = 1) <=> (g.rel_read_ok /\ ShowsPendingValid(g.rel_val))

\* C9 amended: when the ACCESS read succeeds, force set always issues the
\* write whatever was read, and force clear issues it exactly when the
\* value read has the request-pending and valid bits; when the ACCESS read
\* fails nothing is written, with or without force.
ReleaseWritesWhenReadSucceeds ==
  g.rel_called =>
    /\ g.rel_writes <= 1
    /\ IF ~g.rel_read_ok THEN g.rel_writes = 0
       ELSE IF l.force # 0 THEN g.rel_writes = 1 /\ g.rel_reg = l.loc
       ELSE (g.rel_writes = 1) <=> ShowsPendingValid(g.rel_val)

\* An unforced release that found valid without request-pending and wrote
\* nothing.
ReleaseUnforcedWitness ==
  pc = "release_ret" /\ l.force = 0 /\ g.rel_read_ok /\ g.rel_val = 128
  /\ g.rel_writes = 0

CleanupAlwaysWrites ==
  pc = "cleanup_ret" => (g.rel_writes = 1 /\ g.rel_reg = chip.locality)

\* C11 amended: every call to cleanup calls the forced release of the
\* recorded locality; the active-locality write to the ACCESS register of
\* that locality is issued, whatever the register holds, whenever the
\* ACCESS read that release_locality starts with succeeds, and nothing is
\* written when that read fails.
CleanupWritesWhenReadSucceeds ==
  pc = "cleanup_ret" =>
    /\ g.rel_called
    /\ IF g.rel_read_ok
       THEN g.rel_writes = 1 /\ g.rel_reg = chip.locality
       ELSE g.rel_writes = 0 /\ g.rel_reg = -1

\* A cleanup that read an ACCESS register with no bit set and wrote the
\* release.
CleanupWitness ==
  pc = "cleanup_ret" /\ g.rel_read_ok /\ g.rel_val = 0 /\ g.rel_writes = 1
  /\ g.rel_reg = 0

\* C12: probe returns success if and only if a read of the locality-0
\* ACCESS register within the long timeout succeeded with the valid bit
\* set; probe attempts no register write and leaves the chip context
\* (recorded locality, bindings, open flag) as it was.
ProbeSuccessIffValidRead ==
  (pc = "probe_ret" /\ g.op = "probe") =>
    /\ (l.ret = 0) <=> g.valid_read
    /\ ~g.wr
    /\ chip = g.chip_in

StatusDecodingBytesWitness ==
  g.decoded /\ ((g.raw[4] = 255 /\ l.burstcnt = 3) \/ l.burstcnt = 256)

\* The positions right after a return of cr50_wait_burst_status.
WaitReturned == pc \in {AfterWait(p) : p \in WaitPcs}

\* C14: cr50_wait_burst_status returns success only on a status read whose
\* status has the mask bits (valid) and whose burst count is in 1..63, and
\* hands back that read's status and burst count; it fails only when the
\* long timeout has elapsed with no qualifying read, so no failed or
\* non-qualifying read ends it earlier.
WaitReturnsQualifyingRead ==
  WaitReturned =>
    IF l.wrc = 0
    THEN /\ g.polled /\ g.decoded
         /\ BitSet(g.raw[1], 7)
         /\ g.raw[2] + 256 * g.raw[3] \in 1..63
         /\ l.status = g.raw[1]
         /\ l.burstcnt = g.raw[2] + 256 * g.raw[3]
    ELSE /\ l.wrc = -1
         /\ ~g.polled
         /\ g.timed_out
         /\ g.wait_elapsed >= TimeoutLongMs

\* A wait that saw a valid status with burst count 64 and then timed out.
WaitTimeoutWitness ==
  WaitReturned /\ l.wrc = -1 /\ g.decoded /\ g.raw = <<136, 64, 0, 0>>
  /\ g.wait_elapsed = TimeoutLongMs

\* C15: in send, when a status poll that follows a FIFO chunk write and
\* precedes another one shows DataExpect clear, send fails, writes nothing
\* more to the data FIFO and issues no go.
SendRequiresExpectAfterFirstChunk ==
  (g.op = "send" /\ g.miss) =>
    /\ ~g.miss_write
    /\ g.go_count = 0
    /\ SendReturned
    /\ l.ret = -1

\* C16: receive fails at once on a protocol violation and never returns a
\* partial result: a poll before a FIFO read that shows DataAvail clear
\* ends the call without that FIFO read; DataAvail still set on the poll
\* after the last FIFO read ends it; and after any of these, a status
\* timeout, a failed FIFO read, a rejected length or a too small buffer,
\* the result is -1, never a byte count.
RecvFailsWithoutPartialResult ==
  /\ g.op = "recv" =>
       /\ ~g.read_after_miss
       /\ (g.avail_miss \/ g.excess \/ g.rd_fail) => (RecvReturned /\ l.ret = -1)
  /\ RecvReturned =>
       /\ (g.timed_out \/ g.rejected \/ l.buf_len < TPM_HEADER_SIZE) => l.ret = -1
       /\ g.fail_site = "no_data" <=> g.avail_miss
       /\ g.fail_site = "excess" <=> g.excess
       /\ g.fail_site = "read" <=> g.rd_fail
       /\ g.fail_site = "timeout" <=> g.timed_out
       /\ g.fail_site # "none" <=> l.ret = -1
       /\ l.ret = -1 \/ l.ret = g.fifo_r

\* All 12 declared bytes were read and the poll after them still showed
\* DataAvail: receive failed.
RecvExcessWitness ==
  RecvReturned /\ g.excess /\ g.fail_site = "excess" /\ l.ret = -1
  /\ g.declared = 12 /\ g.fifo_r = 12

\* The poll before the second FIFO read showed DataAvail clear: receive
\* failed with the 10 bytes of the first chunk read.
RecvNoDataWitness ==
  RecvReturned /\ g.avail_miss /\ l.ret = -1 /\ g.fifo_r = 10
  /\ g.declared = 12

\* C17: init called with a zero device address fails at once: nothing goes
\* over the bus, no register read or write is attempted, no locality is
\* requested or released, and the device handle and the chip context are
\* as they were before the call.
InitZeroAddressFrame ==
  (pc = "init_ret" /\ g.op = "init" /\ g.in_addr = 0) =>
    /\ l.ret = -1
    /\ ~g.bus_io /\ ~g.wr
    /\ ~g.req_done /\ g.req_writes = 0 /\ ~g.rel_called /\ ~g.did_ok
    /\ dev = g.dev_in
    /\ chip = g.chip_in

\* Init with a zero address on a handle and a context that an earlier
\* session had set up.
InitZeroAddressWitness ==
  pc = "init_ret" /\ g.op = "init" /\ g.in_addr = 0 /\ l.ret = -1
  /\ dev = [bus |-> 1, addr |-> 80] /\ chip.bound /\ chip.is_open = 0

\* A pass of the chunk loop of send that goes on to the next poll has
\* written at least one more command byte.
SendChunkProgress ==
  (pc = "send_chunk" /\ pc' = "send_wait") => (l'.sent > l.sent /\ l'.len < l.len)

\* C18: every call to send returns, whatever the chip answers, and each
\* pass of the chunk-writing loop makes progress or the call fails.
SendTerminates ==
  /\ (pc = "send_ready") ~> (pc = "send_ret")
  /\ [][SendChunkProgress]_vars

\* Every call to send returns (the liveness part of C18 alone).
SendEventuallyReturns == (pc = "send_ready") ~> (pc = "send_ret")

\* C19: every FIFO read of receive stores its bytes inside the caller's
\* buffer: the highest offset a read stored to is at most buf_len.
RecvStoresInsideBuffer ==
  g.op = "recv" => g.max_end <= l.buf_len

\* C20: when receive has decoded the expected length, all four bytes of the
\* size field were read from the chip by the first FIFO chunk.
RecvLengthFromChipBytes ==
  (g.op = "recv" /\ g.declared >= 0) => g.hdr_fresh = 4

====
